---- MODULE Spec2Model ----
(***************************************************************************)
(* Model of the municipal news ingestion pipeline of src/main.py:          *)
(* time window, date parsing, fingerprint, the check-then-insert gate of   *)
(* notion_create, the two collectors and the orchestrating main loop.      *)
(*                                                                         *)
(* Strings are tuples of one-character strings, instants are whole hours   *)
(* on the JST wall clock counted from the proleptic ordinal day 1          *)
(* (instant = ordinal * 24 + hour), as datetime.toordinal counts days.     *)
(***************************************************************************)
EXTENDS Integers, Sequences, FiniteSets, TLC

VARIABLES
    sources,    \* rows of sources.csv, as csv.DictReader returns them
    web,        \* what a GET of each endpoint returns when it succeeds
    store,      \* the pages of the external database, in insertion order
    pc,         \* per run: where main() stands
    fetched,    \* per run: now_jst() taken at the top of main()
    idx,        \* per run: index of the row the for loop of main() is at
    pos,        \* per run: index of the entry the collector loop is at
    created,    \* per run: the collector's local counter
    total,      \* per run: total_created
    printed,    \* per run: the "created=" numbers printed, one per source
    cur,        \* per run: arguments and key of the notion_create in flight
    seenAt,     \* per run: Len(store) when its last existence query answered
    fetchLog,   \* history, per run: the fetches attempted, in order
    calls,      \* history, per run: the notion_create calls and how they ended
    extracted,  \* history, per run: entries whose extraction completed
    faults,     \* history, per run: a fetch or store request has failed
    kin, kout,  \* inputs and results of dup_key applied on its own
    pin, pout   \* input and result of parse_any_date applied on its own

pipeVars == <<sources, web, store, pc, fetched, idx, pos, created, total,
              printed, cur, seenAt, fetchLog, calls, extracted, faults>>
pureVars == <<kin, kout, pin, pout>>
vars == <<pipeVars, pureVars>>

\* ------------------------------------------------------------------ bounds
MaxRuns == 2
MaxSources == 2
MaxStrLen == 2

\* ------------------------------------------------------- program constants
AnchorHour == 0
HoursPerDay == 24
JstOffset == 9
TitleMax == 200
AncestorLevels == 4

Runs == 1..MaxRuns

\* ----------------------------------------------------------------- strings
Bar == <<"|">>

Min(a, b) == IF a <= b THEN a ELSE b

\* s[:n]
Take(s, n) == SubSeq(s, 1, Min(n, Len(s)))

Repeat(c, n) == [i \in 1..n |-> c]

Strs(alphabet, n) == UNION {[1..k -> alphabet] : k \in 0..n}

\* ---------------------------------------------------------------- calendar
IsLeap(y) == (y % 4 = 0) /\ ((y % 100 # 0) \/ (y % 400 = 0))

DaysInMonth(y, m) ==
    IF m = 2 THEN (IF IsLeap(y) THEN 29 ELSE 28)
    ELSE IF m \in {4, 6, 9, 11} THEN 30 ELSE 31

\* what dt.datetime(y, mo, d, ...) accepts; anything else is a ValueError
ValidDate(y, m, d) ==
    /\ y \in 1..9999
    /\ m \in 1..12
    /\ d \in 1..DaysInMonth(y, m)

RECURSIVE DaysBeforeMonth(_, _)
DaysBeforeMonth(y, m) ==
    IF m = 1 THEN 0 ELSE DaysBeforeMonth(y, m - 1) + DaysInMonth(y, m - 1)

\* date(y, m, d).toordinal()
Ordinal(y, m, d) ==
    365 * (y - 1) + ((y - 1) \div 4) - ((y - 1) \div 100) + ((y - 1) \div 400)
        + DaysBeforeMonth(y, m) + d

\* results of the parsers: an instant, None, or a raised exception
None == [tag |-> "none", val |-> 0]
Ok(v) == [tag |-> "ok", val |-> v]
Raise == [tag |-> "raise", val |-> 0]

\* dt.datetime(y, mo, d, 0, 0, 0, tzinfo=JST), m a regex match <<y, mo, d>>
MidnightJst(m) ==
    IF ValidDate(m[1], m[2], m[3])
    THEN Ok(Ordinal(m[1], m[2], m[3]) * HoursPerDay)
    ELSE Raise

\* -------------------------------------------------------------- time window
window_24h(run_time) ==
    LET end == (run_time \div HoursPerDay) * HoursPerDay + AnchorHour
    IN  [start |-> end - HoursPerDay, end |-> end]

\* variant: the closed interval [start, end]
InWindowInclusiveEnd(p, w) == w.start <= p /\ p <= w.end

\* not (start <= published < end): continue
InWindow(p, w) == w.start <= p /\ p < w.end

\* ------------------------------------------------------------ date parsing
\* A text is modelled by what each of the three date regexes finds in it:
\* the first match <<y, mo, d>> of the pattern, or NoMatch.
NoMatch == <<>>
NoText == [jp |-> NoMatch, slash |-> NoMatch, dash |-> NoMatch]
JpText(m) == [jp |-> m, slash |-> NoMatch, dash |-> NoMatch]
SlashText(m) == [jp |-> NoMatch, slash |-> m, dash |-> NoMatch]
DashText(m) == [jp |-> NoMatch, slash |-> NoMatch, dash |-> m]

parse_any_date(t) ==
    IF t.jp # NoMatch THEN MidnightJst(t.jp)
    ELSE IF t.slash # NoMatch THEN MidnightJst(t.slash)
    ELSE IF t.dash # NoMatch THEN MidnightJst(t.dash)
    ELSE None

\* A feed date text is NoFeedDate (absent, or in neither grammar) or the
\* fields both grammars read: date, hour, and the UTC offset in hours
\* (naive: no offset given).
NoFeedDate == [y |-> 0, mo |-> 0, d |-> 0, h |-> 0, off |-> 0, naive |-> TRUE]
FeedDate(y, mo, d, h, off) ==
    [y |-> y, mo |-> mo, d |-> d, h |-> h, off |-> off, naive |-> FALSE]

\* naive: the wall clock is taken as JST; otherwise astimezone(JST)
to_jst(p) ==
    IF p.naive THEN Ordinal(p.y, p.mo, p.d) * HoursPerDay + p.h
    ELSE Ordinal(p.y, p.mo, p.d) * HoursPerDay + p.h - p.off + JstOffset

\* both attempts sit in try/except: a text neither grammar accepts is None
parse_rss_date(p) ==
    IF p = NoFeedDate THEN None
    ELSE IF ~(ValidDate(p.y, p.mo, p.d) /\ p.h \in 0..23) THEN None
    ELSE Ok(to_jst(p))

\* ------------------------------------------------------------- fingerprint
\* hashlib.sha256(...).hexdigest(), taken as collision-free: the digest is
\* modelled by the string it was computed from.
Sha256(s) == <<"sha256", s>>

\* published.date().isoformat(): one token per calendar day, without "|"
IsoDate(p) == <<ToString(p \div HoursPerDay)>>

\* published is a parser result: None or Ok(instant)
dup_key(muni, url, published, title) ==
    LET pub == IF published.tag = "ok" THEN IsoDate(published.val) ELSE <<>>
        base == muni \o Bar \o url \o Bar \o pub \o Bar \o Take(title, TitleMax)
    IN  Sha256(base)

\* ----------------------------------------------------------------- content
\* An entry of a fetched document (an <item>/<entry> of a feed, an <a href>
\* of a page): its title text, its link text, for an anchor the texts
\* extract_date_near_anchor reads (own text, the ancestors' texts from the
\* parent upward, the preceding string, the preceding string matching
\* DATE_RE_JP), for a feed entry its date text.
Entry(title, href, own, anc, prev, prevjp, pub) ==
    [title |-> title, href |-> href, own |-> own, anc |-> anc, prev |-> prev,
     prevjp |-> prevjp, pub |-> pub]

Anchor(title, href, own, anc, prevjp) ==
    Entry(title, href, own, anc, NoText, prevjp, NoFeedDate)

Item(title, href, pub) ==
    Entry(title, href, NoText, <<>>, NoText, NoText, pub)

\* A document: the declared content type names xml/rss/atom or not, the
\* head holds one of RSS_MARKERS or not, the text is well-formed XML or not.
Doc(ctypeXml, marker, wellFormed, entries) ==
    [ctypeXml |-> ctypeXml, marker |-> marker, wf |-> wellFormed,
     entries |-> entries]

looks_like_rss(doc) == doc.ctypeXml \/ doc.marker

\* requests.compat.urljoin(base, href): a link with an unclosed "[" is a
\* ValueError (invalid IPv6 URL); a link with a scheme (first character "h")
\* comes back unchanged; any other is resolved against the base.
urljoin(base, href) ==
    IF \E i \in 1..Len(href) : href[i] = "["
    THEN [tag |-> "raise", val |-> <<>>]
    ELSE IF Len(href) > 0 /\ href[1] = "h"
    THEN [tag |-> "ok", val |-> href]
    ELSE [tag |-> "ok", val |-> base \o <<"/">> \o href]

\* the first text of the list in which parse_any_date finds a date; a
\* ValueError of parse_any_date propagates
RECURSIVE FirstDate(_)
FirstDate(texts) ==
    IF texts = <<>> THEN None
    ELSE LET d == parse_any_date(Head(texts))
         IN  IF d.tag # "none" THEN d ELSE FirstDate(Tail(texts))

extract_date_near_anchor(a) ==
    FirstDate(<<a.own>> \o Take(a.anc, AncestorLevels) \o <<a.prev, a.prevjp>>)

\* What one pass of a collector's loop body finds before the window test:
\* "skip" (continue), "raise" (an exception leaves the collector) or "cand".
Skip == [tag |-> "skip", link |-> <<>>, published |-> None]
Fail == [tag |-> "raise", link |-> <<>>, published |-> None]
Cand(link, published) == [tag |-> "cand", link |-> link, published |-> published]

ExtractHtml(page_url, a) ==
    IF a.title = <<>> \/ a.href = <<>> THEN Skip
    ELSE LET link == urljoin(page_url, a.href)
         IN  IF link.tag = "raise" THEN Fail
             ELSE LET published == extract_date_near_anchor(a)
                  IN  IF published.tag = "raise" THEN Fail
                      ELSE IF published.tag = "none" THEN Skip
                      ELSE Cand(link.val, published)

ExtractRss(feed_url, it) ==
    IF it.title = <<>> THEN Skip
    ELSE IF it.href = <<>> THEN Skip
    ELSE LET link == urljoin(feed_url, it.href)
         IN  IF link.tag = "raise" THEN Fail
             ELSE LET published == parse_rss_date(it.pub)
                  IN  IF published.tag = "none" THEN Skip
                      ELSE Cand(link.val, published)

Extract(doc, url, e) ==
    IF looks_like_rss(doc) THEN ExtractRss(url, e) ELSE ExtractHtml(url, e)

\* ------------------------------------------------------------- source list
Row(muni, url) == [muni |-> muni, url |-> url]

\* variant: only the municipality is looked at
RowOkMuniOnly(r) == r.muni # <<>>

\* a missing column or field reads as empty (None): `not r["muni"]`
RowOk(r) == r.muni # <<>> /\ r.url # <<>>

\* read_sources raises ValueError
read_sources_raises(rows) == \E i \in 1..Len(rows) : ~RowOk(rows[i])

\* ------------------------------------------------------------------- store
\* variant: the query never matches
notion_exists_never(key, st) == FALSE

\* variant: the query looks at the newest page only
notion_exists_last(key, st) == Len(st) > 0 /\ st[Len(st)].key = key

\* query filtered on the key property: some page carries the key
notion_exists(key, st) == \E i \in 1..Len(st) : st[i].key = key

\* ------------------------------------------------------------------ inputs
MuniA == <<"A">>
MuniB == <<"B">>
Url1 == <<"h", "1">>
Url2 == <<"h", "2">>
Urls == {Url1, Url2}

Day8 == <<2024, 3, 8>>
Day9 == <<2024, 3, 9>>
Day10 == <<2024, 3, 10>>
NoSuchDay == <<2024, 13, 1>>

\* the instants at which a run may start: 07:00 on two successive days
NowSet == {Ordinal(2024, 3, 10) * HoursPerDay + 7,
           Ordinal(2024, 3, 11) * HoursPerDay + 7}

TitleA == <<"a">>
TitleB == <<"b">>
LinkA == <<"h", "a">>

\* anchors of a listing page
aDay9 == Anchor(TitleA, LinkA, JpText(Day9), <<>>, NoText)
aDay9Prev == Anchor(TitleA, LinkA, NoText, <<NoText>>, JpText(Day9))
aDay10 == Anchor(TitleB, <<"b">>, NoText, <<NoText, SlashText(Day10)>>, NoText)
aDay8 == Anchor(TitleB, LinkA, DashText(Day8), <<>>, NoText)
aNoSuchDay == Anchor(TitleB, <<"h", "c">>, JpText(NoSuchDay), <<>>, NoText)
aNoTitle == Anchor(<<>>, LinkA, JpText(Day9), <<>>, NoText)
aFarDate ==
    Anchor(TitleB, LinkA, NoText, <<NoText, NoText, NoText, NoText, JpText(Day9)>>,
           NoText)
aBadLink == Anchor(TitleB, <<"h", "[">>, JpText(Day9), <<>>, NoText)

\* entries of a feed
iLastHour == Item(TitleA, LinkA, FeedDate(2024, 3, 9, 23, 9))
iUtcEnd == Item(TitleB, <<"b">>, FeedDate(2024, 3, 9, 15, 0))
iNaiveStart ==
    Item(TitleB, LinkA, [FeedDate(2024, 3, 9, 0, 0) EXCEPT !.naive = TRUE])
iNoSuchDay == Item(TitleB, LinkA, FeedDate(2024, 13, 1, 0, 9))
iNoDate == Item(TitleB, LinkA, NoFeedDate)
iNoLink == Item(TitleB, <<>>, FeedDate(2024, 3, 9, 12, 9))

Page(entries) == Doc(FALSE, FALSE, FALSE, entries)
Feed(entries) == Doc(TRUE, TRUE, TRUE, entries)

Docs ==
    { Page(<<aNoTitle, aDay9, aDay10>>),
      Page(<<aNoSuchDay, aDay9>>),
      Page(<<aDay9, aNoSuchDay>>),
      Page(<<aDay9, aDay9Prev>>),
      Page(<<aFarDate, aDay8, aBadLink>>),
      Feed(<<iLastHour, iUtcEnd, iNoSuchDay>>),
      Doc(FALSE, TRUE, TRUE, <<iNaiveStart, iNoDate, iNoLink>>),
      Doc(TRUE, FALSE, FALSE, <<>>) }

\* the second endpoint serves a feed or a page that lists one item twice
Docs2 ==
    { Feed(<<iLastHour, iUtcEnd, iNoSuchDay>>),
      Page(<<aDay9, aDay9Prev>>) }

ServedBy(u) == IF u = Url1 THEN Docs ELSE Docs2

Rows == {Row(MuniA, Url1), Row(MuniA, Url2), Row(MuniB, Url1),
         Row(MuniA, <<>>), Row(<<>>, Url2)}

SourceLists == UNION {[1..n -> Rows] : n \in 0..MaxSources}

UsedUrls(rows) == {rows[i].url : i \in 1..Len(rows)}

\* ------------------------------------------------------------------- state
NoCand == [title |-> <<>>, muni |-> <<>>, link |-> <<>>, published |-> None,
           key |-> <<>>]

Unset == [tag |-> "unset", val |-> 0]

InitPure ==
    /\ kin = <<>>
    /\ kout = <<>>
    /\ pin = NoText
    /\ pout = Unset

InitRuns ==
    /\ store = <<>>
    /\ pc = [r \in Runs |-> "idle"]
    /\ fetched = [r \in Runs |-> 0]
    /\ idx = [r \in Runs |-> 0]
    /\ pos = [r \in Runs |-> 0]
    /\ created = [r \in Runs |-> 0]
    /\ total = [r \in Runs |-> 0]
    /\ printed = [r \in Runs |-> <<>>]
    /\ cur = [r \in Runs |-> NoCand]
    /\ seenAt = [r \in Runs |-> 0]
    /\ fetchLog = [r \in Runs |-> <<>>]
    /\ calls = [r \in Runs |-> {}]
    /\ extracted = [r \in Runs |-> {}]
    /\ faults = [r \in Runs |-> FALSE]

\* an endpoint no row names serves the empty page
InitWorld(lists) ==
    /\ sources \in lists
    /\ web \in [Urls -> Docs \cup {Page(<<>>)}]
    /\ \A u \in Urls :
          IF u \in UsedUrls(sources) THEN web[u] \in ServedBy(u)
          ELSE web[u] = Page(<<>>)

Init == InitWorld(SourceLists) /\ InitRuns /\ InitPure

\* ----------------------------------------------------------------- actions
CurRow(r) == sources[idx[r]]
CurDoc(r) == web[CurRow(r).url]
CurExtract(r) == Extract(CurDoc(r), CurRow(r).url, CurDoc(r).entries[pos[r]])

Called(r, res) ==
    calls' = [calls EXCEPT ![r] = @ \cup
                 {[src |-> idx[r], pos |-> pos[r], key |-> cur[r].key, res |-> res]}]

\* the end of one pass of the for loop of main(): total_created += c, the
\* created= line, and the next row or the [DONE] line
Advance(r, c) ==
    /\ total' = [total EXCEPT ![r] = @ + c]
    /\ printed' = [printed EXCEPT ![r] = Append(@, c)]
    /\ pos' = [pos EXCEPT ![r] = 0]
    /\ created' = [created EXCEPT ![r] = 0]
    /\ IF idx[r] < Len(sources)
       THEN idx' = [idx EXCEPT ![r] = @ + 1] /\ pc' = [pc EXCEPT ![r] = "fetch"]
       ELSE idx' = idx /\ pc' = [pc EXCEPT ![r] = "done"]

\* the next pass of a collector's loop
NextEntry(r) ==
    /\ pos' = [pos EXCEPT ![r] = @ + 1]
    /\ pc' = [pc EXCEPT ![r] = "loop"]
    /\ cur' = [cur EXCEPT ![r] = NoCand]

\* main() up to the for loop: the clock, the window, read_sources
Begin(r) ==
    /\ pc[r] = "idle"
    /\ \A q \in Runs : q < r => pc[q] # "idle"
    /\ \E t \in NowSet :
          /\ \A q \in Runs : q < r => fetched[q] <= t
          /\ fetched' = [fetched EXCEPT ![r] = t]
    /\ IF read_sources_raises(sources)
       THEN pc' = [pc EXCEPT ![r] = "aborted"] /\ idx' = idx
       ELSE IF Len(sources) = 0
       THEN pc' = [pc EXCEPT ![r] = "done"] /\ idx' = idx
       ELSE pc' = [pc EXCEPT ![r] = "fetch"] /\ idx' = [idx EXCEPT ![r] = 1]
    /\ UNCHANGED <<sources, web, store, pos, created, total, printed, cur,
                   seenAt, fetchLog, calls, extracted, faults, pureVars>>

\* runs never overlap: the scheduler starts a run when no other is under way
NoOverlap(r) == \A q \in Runs \ {r} : pc[q] \in {"idle", "done", "aborted"}

BeginAlone(r) == NoOverlap(r) /\ Begin(r)

\* variant: a failed fetch leaves the loop (break for continue)
FetchFailBreak(r) ==
    /\ pc[r] = "fetch"
    /\ fetchLog' = [fetchLog EXCEPT ![r] = Append(@, [src |-> idx[r], ok |-> FALSE])]
    /\ faults' = [faults EXCEPT ![r] = TRUE]
    /\ printed' = [printed EXCEPT ![r] = Append(@, 0)]
    /\ pc' = [pc EXCEPT ![r] = "done"]
    /\ UNCHANGED <<sources, web, store, fetched, idx, pos, created, total, cur,
                   seenAt, calls, extracted, pureVars>>

\* fetch_bytes returns (None, None): fetch_failed, created=0, continue
FetchFail(r) ==
    /\ pc[r] = "fetch"
    /\ fetchLog' = [fetchLog EXCEPT ![r] = Append(@, [src |-> idx[r], ok |-> FALSE])]
    /\ faults' = [faults EXCEPT ![r] = TRUE]
    /\ Advance(r, 0)
    /\ UNCHANGED <<sources, web, store, fetched, cur, seenAt, calls, extracted,
                   pureVars>>

\* fetch_bytes returns the document (a GET of an endpoint that is no URL
\* always raises); a feed that is not well-formed XML makes collect_rss
\* return 0 at once
FetchOk(r) ==
    /\ pc[r] = "fetch"
    /\ CurRow(r).url \in Urls
    /\ fetchLog' = [fetchLog EXCEPT ![r] = Append(@, [src |-> idx[r], ok |-> TRUE])]
    /\ IF looks_like_rss(CurDoc(r)) /\ ~CurDoc(r).wf
       THEN Advance(r, 0)
       ELSE /\ pc' = [pc EXCEPT ![r] = "loop"]
            /\ pos' = [pos EXCEPT ![r] = 1]
            /\ created' = [created EXCEPT ![r] = 0]
            /\ UNCHANGED <<idx, total, printed>>
    /\ UNCHANGED <<sources, web, store, fetched, cur, seenAt, calls, extracted,
                   faults, pureVars>>

\* the loop of the collector is exhausted: return created
CollectReturn(r) ==
    /\ pc[r] = "loop"
    /\ pos[r] > Len(CurDoc(r).entries)
    /\ Advance(r, created[r])
    /\ UNCHANGED <<sources, web, store, fetched, cur, seenAt, fetchLog, calls,
                   extracted, faults, pureVars>>

\* an exception leaves the collector: collector_failed, c = 0
CollectRaise(r) ==
    /\ pc[r] = "loop"
    /\ pos[r] <= Len(CurDoc(r).entries)
    /\ CurExtract(r).tag = "raise"
    /\ Advance(r, 0)
    /\ UNCHANGED <<sources, web, store, fetched, cur, seenAt, fetchLog, calls,
                   extracted, faults, pureVars>>

\* no title, no link or no date: continue
CollectSkip(r) ==
    /\ pc[r] = "loop"
    /\ pos[r] <= Len(CurDoc(r).entries)
    /\ CurExtract(r).tag = "skip"
    /\ NextEntry(r)
    /\ UNCHANGED <<sources, web, store, fetched, idx, created, total, printed,
                   seenAt, fetchLog, calls, extracted, faults, pureVars>>

\* title, link and date are there: the window test, then notion_create
\* computes the key and sends the existence query
CollectCandidate(r) ==
    /\ pc[r] = "loop"
    /\ pos[r] <= Len(CurDoc(r).entries)
    /\ CurExtract(r).tag = "cand"
    /\ LET x == CurExtract(r)
           title == CurDoc(r).entries[pos[r]].title
           muni == CurRow(r).muni
       IN  /\ extracted' = [extracted EXCEPT ![r] = @ \cup
                  {[src |-> idx[r], pos |-> pos[r], published |-> x.published.val]}]
           /\ IF InWindow(x.published.val, window_24h(fetched[r]))
              THEN /\ cur' = [cur EXCEPT ![r] =
                         [title |-> title, muni |-> muni, link |-> x.link,
                          published |-> x.published,
                          key |-> dup_key(muni, x.link, x.published, title)]]
                   /\ pc' = [pc EXCEPT ![r] = "exists"]
                   /\ pos' = pos
              ELSE NextEntry(r)
    /\ UNCHANGED <<sources, web, store, fetched, idx, created, total, printed,
                   seenAt, fetchLog, calls, faults, pureVars>>

\* the existence query fails: raise_for_status raises, notion_failed
ExistsError(r) ==
    /\ pc[r] = "exists"
    /\ Called(r, "raise")
    /\ faults' = [faults EXCEPT ![r] = TRUE]
    /\ NextEntry(r)
    /\ UNCHANGED <<sources, web, store, fetched, idx, created, total, printed,
                   seenAt, fetchLog, extracted, pureVars>>

\* the existence query answers: return False on a match, else go on to write
ExistsAnswer(r) ==
    /\ pc[r] = "exists"
    /\ IF notion_exists(cur[r].key, store)
       THEN /\ Called(r, "false")
            /\ NextEntry(r)
            /\ seenAt' = seenAt
       ELSE /\ seenAt' = [seenAt EXCEPT ![r] = Len(store)]
            /\ pc' = [pc EXCEPT ![r] = "insert"]
            /\ UNCHANGED <<pos, cur, calls>>
    /\ UNCHANGED <<sources, web, store, fetched, idx, created, total, printed,
                   fetchLog, extracted, faults, pureVars>>

\* the page request fails: notion_create_failed, raise_for_status raises
InsertError(r) ==
    /\ pc[r] = "insert"
    /\ Called(r, "raise")
    /\ faults' = [faults EXCEPT ![r] = TRUE]
    /\ NextEntry(r)
    /\ UNCHANGED <<sources, web, store, fetched, idx, created, total, printed,
                   seenAt, fetchLog, extracted, pureVars>>

\* the page is written: return True, created += 1.  run, src, pos and seen
\* are history: which call wrote the page and what its existence query saw.
InsertOk(r) ==
    /\ pc[r] = "insert"
    /\ store' = Append(store,
          [key |-> cur[r].key, title |-> Take(cur[r].title, TitleMax),
           muni |-> Take(cur[r].muni, TitleMax), link |-> cur[r].link,
           published |-> cur[r].published.val, fetched |-> fetched[r],
           run |-> r, src |-> idx[r], pos |-> pos[r], seen |-> seenAt[r]])
    /\ created' = [created EXCEPT ![r] = @ + 1]
    /\ Called(r, "true")
    /\ NextEntry(r)
    /\ UNCHANGED <<sources, web, fetched, idx, total, printed, seenAt, fetchLog,
                   extracted, faults, pureVars>>

Step(r) ==
    \/ FetchFail(r)
    \/ FetchOk(r)
    \/ CollectReturn(r)
    \/ CollectRaise(r)
    \/ CollectSkip(r)
    \/ CollectCandidate(r)
    \/ ExistsError(r)
    \/ ExistsAnswer(r)
    \/ InsertError(r)
    \/ InsertOk(r)

Next == \E r \in Runs : BeginAlone(r) \/ Step(r)

Spec == Init /\ [][Next]_vars

\* overlapping runs: two scheduled runs on one endpoint, begun at any time
InitOverlap ==
    /\ InitWorld({<<Row(MuniA, Url1)>>})
    /\ InitRuns
    /\ InitPure

NextOverlap == \E r \in Runs : Begin(r) \/ Step(r)

SpecOverlap == InitOverlap /\ [][NextOverlap]_vars

\* ------------------------------------------- the pure functions on their own
KeyInput(muni, url, published, title) ==
    [muni |-> muni, url |-> url, published |-> published, title |-> title]

\* a title one character longer than the prefix the key keeps
LongTitle(last) == Repeat("a", TitleMax) \o <<last>>

\* candidates as the pipeline hands them to dup_key: municipality and link
\* are not empty
KeyInputs ==
    { KeyInput(m, u, p, t) :
        m \in Strs({"a", "|"}, MaxStrLen) \ {<<>>},
        u \in Strs({"a", "|"}, MaxStrLen) \ {<<>>},
        p \in {None, Ok(Ordinal(2024, 3, 9) * HoursPerDay),
               Ok(Ordinal(2024, 3, 9) * HoursPerDay + 23)},
        t \in {TitleA, LongTitle("b"), LongTitle("c")} }

Matches == {NoMatch, Day9, NoSuchDay, <<0, 1, 1>>, <<2024, 2, 29>>,
            <<2023, 2, 29>>, <<2024, 4, 31>>}

Texts == [jp : Matches, slash : Matches, dash : Matches]

InitApply ==
    /\ sources = <<>>
    /\ web = [u \in Urls |-> Page(<<>>)]
    /\ InitRuns
    /\ kout = <<>>
    /\ pout = Unset
    /\ \/ kin \in KeyInputs \X KeyInputs /\ pin = NoText
       \/ kin = <<>> /\ pin \in Texts

ApplyDupKey ==
    /\ kin # <<>>
    /\ kout = <<>>
    /\ kout' = <<dup_key(kin[1].muni, kin[1].url, kin[1].published, kin[1].title),
                 dup_key(kin[2].muni, kin[2].url, kin[2].published, kin[2].title)>>
    /\ UNCHANGED <<pipeVars, kin, pin, pout>>

ApplyParseAnyDate ==
    /\ kin = <<>>
    /\ pout = Unset
    /\ pout' = parse_any_date(pin)
    /\ UNCHANGED <<pipeVars, kin, kout, pin>>

NextApply == ApplyDupKey \/ ApplyParseAnyDate

SpecApply == InitApply /\ [][NextApply]_vars

\* ------------------------------------------------------------------ claims
Pages(r) == {j \in 1..Len(store) : store[j].run = r}
PagesOf(r, i) == {j \in 1..Len(store) : store[j].run = r /\ store[j].src = i}
Started(r) == pc[r] # "idle"
Finished(r) == pc[r] = "done"
SameDay(r, q) == fetched[r] \div HoursPerDay = fetched[q] \div HoursPerDay

\* C1: when runs never overlap, no two pages of the store carry the same
\* fingerprint; every page was written right after an existence query that
\* saw the whole store and found no match; a call that returned False found
\* a page with its key and wrote none, a call that returned True wrote
\* exactly one.
C1_AtMostOncePerFingerprint ==
    /\ \A i, j \in 1..Len(store) : i # j => store[i].key # store[j].key
    /\ \A j \in 1..Len(store) : store[j].seen = j - 1
    /\ \A r \in Runs :
          /\ pc[r] = "insert" => \A j \in 1..Len(store) : store[j].key # cur[r].key
          /\ \A c \in calls[r] :
                /\ c.res = "false" =>
                      /\ \E j \in 1..Len(store) : store[j].key = c.key
                      /\ \A j \in PagesOf(r, c.src) : store[j].pos # c.pos
                /\ c.res = "true" =>
                      /\ Cardinality({j \in 1..Len(store) : store[j].key = c.key}) = 1
                      /\ \E j \in PagesOf(r, c.src) :
                            store[j].pos = c.pos /\ store[j].key = c.key

\* a second run met pages the first had written, after the first had failures
C1_Witness ==
    /\ Finished(1) /\ Finished(2) /\ faults[1]
    /\ Len(store) >= 2
    /\ \E c \in calls[2] : c.res = "false"
    /\ \E c \in calls[2] : c.res = "true"

\* C2 as stated: once two runs over the same content are finished, the
\* second has created nothing and each of its notion_create calls returned
\* False.
C2_SecondRunCreatesNothing ==
    (Finished(1) /\ Finished(2)) =>
        /\ total[2] = 0
        /\ \A c \in calls[2] : c.res = "false"

\* C2 amended: when the first run finished without a failed fetch or store
\* request and the second starts on the same calendar day (the same window),
\* no notion_create call of the second run returns True, it writes no page,
\* and its counts are 0.
C2_SecondRunOfSameDayCreatesNothing ==
    (Finished(1) /\ ~faults[1] /\ Started(2) /\ SameDay(1, 2)) =>
        /\ \A c \in calls[2] : c.res # "true"
        /\ Pages(2) = {}
        /\ pc[2] # "insert"
        /\ total[2] = 0 /\ created[2] = 0
        /\ \A i \in 1..Len(printed[2]) : printed[2][i] = 0

\* a clean first run wrote pages, and the second run of the day met them
C2_Witness ==
    /\ Finished(1) /\ ~faults[1] /\ Finished(2) /\ SameDay(1, 2)
    /\ Len(store) >= 2
    /\ Cardinality({c \in calls[2] : c.res = "false"}) >= 2

\* C3: a run fetches each source once, in list order; a source whose fetch
\* failed has a printed count of 0, no notion_create call and no page; a
\* failed fetch does not end the run: a run that read a well-formed list is
\* never aborted, has a next step until it is finished, and is finished only
\* with every source fetched and reported.
C3_FetchFailureIsolated ==
    \A r \in Runs :
        /\ \A i \in 1..Len(fetchLog[r]) : fetchLog[r][i].src = i
        /\ \A i \in 1..Len(fetchLog[r]) :
              ~fetchLog[r][i].ok =>
                  /\ Len(printed[r]) >= i /\ printed[r][i] = 0
                  /\ PagesOf(r, i) = {}
                  /\ \A c \in calls[r] : c.src # i
        /\ pc[r] = "aborted" =>
              \E i \in 1..Len(sources) : sources[i].muni = <<>> \/ sources[i].url = <<>>
        /\ pc[r] \in {"fetch", "loop", "exists", "insert"} => ENABLED Step(r)
        /\ Finished(r) =>
              /\ Len(fetchLog[r]) = Len(sources)
              /\ Len(printed[r]) = Len(sources)

\* the first fetch failed, the second source was collected and wrote a page
C3_Witness ==
    /\ Finished(1)
    /\ Len(sources) = 2
    /\ ~fetchLog[1][1].ok /\ fetchLog[1][2].ok
    /\ PagesOf(1, 2) # {}
    /\ total[1] > 0

\* what the loop body makes of entry p of source i in run r, taken alone
EntryAlone(r, i, p) ==
    Extract(web[sources[i].url], sources[i].url, web[sources[i].url].entries[p])

InRunWindow(r, published) ==
    LET end == (fetched[r] \div 24) * 24 + AnchorHour
    IN  end - 24 <= published /\ published < end

\* C4: in a source that was fetched and parsed, every entry that has a
\* title, a link and a date inside the window is passed to notion_create,
\* whatever happened to the entries before it.
C4_LaterCandidatesStillCommitted ==
    \A r \in Runs : \A i \in 1..Len(printed[r]) :
        LET doc == web[sources[i].url]
        IN  (fetchLog[r][i].ok /\ (looks_like_rss(doc) => doc.wf)) =>
                \A p \in 1..Len(doc.entries) :
                    (/\ EntryAlone(r, i, p).tag = "cand"
                     /\ InRunWindow(r, EntryAlone(r, i, p).published.val))
                    => \E c \in calls[r] : c.src = i /\ c.pos = p

\* C5: at the end of a run each printed per-source count is the number of
\* pages the run wrote for that source, and total_created is the number of
\* pages the run wrote.
C5_CountsMatchStore ==
    \A r \in Runs :
        Finished(r) =>
            /\ \A i \in 1..Len(printed[r]) :
                  printed[r][i] = Cardinality(PagesOf(r, i))
            /\ total[r] = Cardinality(Pages(r))

InFlight(r, i, p) == pc[r] \in {"exists", "insert"} /\ idx[r] = i /\ pos[r] = p

\* C6: with end = the run's instant at the anchor hour and start = end - 24h,
\* start <= end and window_24h returns them; an extracted candidate is passed
\* to notion_create iff start <= published < end; only extracted candidates
\* (which have a date) are ever passed; every page a run wrote is dated
\* inside its window.
C6_HalfOpenWindow ==
    \A r \in Runs :
        Started(r) =>
            LET end == (fetched[r] \div 24) * 24 + AnchorHour
                start == end - 24
                Passed(i, p) ==
                    InFlight(r, i, p) \/ \E c \in calls[r] : c.src = i /\ c.pos = p
            IN  /\ start <= end
                /\ window_24h(fetched[r]) = [start |-> start, end |-> end]
                /\ \A x \in extracted[r] :
                      Passed(x.src, x.pos) <=> (start <= x.published /\ x.published < end)
                /\ \A c \in calls[r] :
                      \E x \in extracted[r] : x.src = c.src /\ x.pos = c.pos
                /\ \A j \in Pages(r) :
                      start <= store[j].published /\ store[j].published < end

\* a page dated exactly start was written, and a candidate dated exactly end
\* and one dated before start were extracted and not passed
C6_Witness ==
    \E r \in Runs :
        LET w == window_24h(fetched[r])
        IN  /\ Finished(r)
            /\ \E j \in Pages(r) : store[j].published = w.start
            /\ \E j \in Pages(r) : store[j].published = w.end - 1
            /\ \E x \in extracted[r] :
                  x.published = w.end /\ \A c \in calls[r] : <<c.src, c.pos>> # <<x.src, x.pos>>

\* C7: when a row of the list lacks its municipality or its endpoint, no run
\* gets past read_sources: no fetch, no existence query, no page.
C7_MalformedListAbortsFirst ==
    (\E i \in 1..Len(sources) : sources[i].muni = <<>> \/ sources[i].url = <<>>) =>
        /\ store = <<>>
        /\ \A r \in Runs :
              /\ pc[r] \in {"idle", "aborted"}
              /\ fetchLog[r] = <<>>
              /\ calls[r] = {}
              /\ cur[r] = NoCand

\* a run aborted on a list whose first row is well-formed
C7_Witness ==
    /\ pc[1] = "aborted"
    /\ Len(sources) = 2
    /\ sources[1].muni # <<>> /\ sources[1].url # <<>>
    /\ sources[2].url = <<>>

\* the tuple C8 names: municipality, link, calendar date, title prefix
KeyTuple(k) ==
    <<k.muni, k.url,
      IF k.published.tag = "ok" THEN k.published.val \div HoursPerDay ELSE -1,
      Take(k.title, TitleMax)>>

\* C8: two candidates whose (municipality, link, published calendar date,
\* first 200 characters of title) differ get different fingerprints.
C8_DistinctTuplesDistinctKeys ==
    kout # <<>> =>
        (KeyTuple(kin[1]) # KeyTuple(kin[2]) => kout[1] # kout[2])

\* C9: with overlapping runs two pages can carry one fingerprint, and only
\* through the gap between query and write: the two pages are of different
\* runs and the later one's existence query answered before the earlier one
\* was written.
C9_DuplicatesOnlyThroughTheGap ==
    \A i, j \in 1..Len(store) :
        (i < j /\ store[i].key = store[j].key) =>
            /\ store[i].run # store[j].run
            /\ store[j].seen < i

\* both queries saw no page, both writes succeeded, both calls returned True
C9_Witness ==
    /\ Len(store) = 2
    /\ store[1].key = store[2].key
    /\ store[1].seen = 0 /\ store[2].seen = 0
    /\ \A r \in Runs :
          Finished(r) /\ total[r] = 1
          /\ \E c \in calls[r] : c.res = "true" /\ c.key = store[1].key

\* C10: parse_any_date returns None or an instant for every text, and never
\* raises.
C10_ParseAnyDateNeverRaises == pout.tag \in {"unset", "none", "ok"}

====
